---- MODULE Spec2Model ----
(***************************************************************************)
(* A model of the balance_engine planning programs:                        *)
(*   - lp_model           (examples/engine.py, plugins/mcp/server.py)      *)
(*   - the multi-period production-planning script (multi-period.py)       *)
(*   - the production-mix script (product-mix.py)                          *)
(*   - the key unflattening loops of optimize_inventory (server.py)        *)
(*   - the report the callers of lp_model make of its results              *)
(*                                                                         *)
(* The LP/MILP solver (pulp + CBC) is external.  It is modelled by what    *)
(* its contract says: model.solve() reports "Infeasible" when no           *)
(* assignment satisfies the registered constraints and variable bounds,    *)
(* and otherwise reports "Optimal" and leaves in the variables SOME        *)
(* assignment that satisfies them and whose objective value no other       *)
(* satisfying assignment improves.  Which of several optimal assignments   *)
(* is returned is a nondeterministic choice.  For lp_model it reports      *)
(* "Unbounded" when the objective can be improved without limit; under a   *)
(* status other than "Optimal" no variable has a value (None).             *)
(* Quantities are integers and                                             *)
(* variables range over lowBound..MaxLevel (the scenarios are guarded so   *)
(* that an optimum of the unbounded problem lies in that range).           *)
(***************************************************************************)
EXTENDS Integers, Sequences, FiniteSets, TLC

VARIABLES
  pc,             \* where the running program is
  data,           \* the arguments / data block of the running program
  model,          \* the pulp.LpProblem built from them
  results,        \* what the solve returned
  demand_tuples,  \* optimize_inventory: the (product, period) -> value dicts
  supply_tuples,  \*   rebuilt from the flattened arguments
  idx,            \* optimize_inventory: position of the running loop in its dict
  output,         \* the report the caller of lp_model makes of the results
  previous        \* the results a caller keeps of its earlier calls with the
                  \*   same arguments, oldest first

vars == <<pc, data, model, results, demand_tuples, supply_tuples, idx, output, previous>>
keyvars == <<demand_tuples, supply_tuples, idx>>
callervars == <<output, previous>>

(***************************************************************************)
(* Bounds of the model.                                                    *)
(***************************************************************************)
\* Largest demand, supply, availability or capacity of one entry.
MaxQty == 2
\* Largest stock level a scenario can build up; the top of every variable's range.
MaxLevel == 3
\* Longest flattened key, in characters.
MaxKeyLen == 5

\* Python's None: the value of a variable the solver never set.
None == "None"
\* None where a number is expected (the .value() of a variable the solver
\* never set, the value of an objective over such variables): a number no
\* variable, cost or sum of the model can take.
NoValue == 0 - 1000
IsNone(value) == value = NoValue

\* The identifier lists a scenario draws from, in caller order.
ProductLists == {<<"X">>, <<"X", "Y">>}
PeriodLists == {<<"T1">>, <<"T1", "T2">>, <<"T2", "T1">>}
\* initial_inventory values, safety_stock_target values, and <<shortage_cost, excess_cost>> pairs, a
\* scenario draws from.
InitialLevels == {0, 1}
Targets == {0, 1}
CostPairs == {<<5, 1>>, <<1, 5>>, <<1, 0 - 1>>}
\* The same for calls with one product whose numbers may be negative or zero.
WideInitialLevels == {0 - 1, 0, 1}
WideTargets == {0 - 1, 0, 1}
WideCostPairs == {<<0, 0>>, <<0, 1>>, <<1, 0>>, <<1, 1>>}

(***************************************************************************)
(* Helpers.                                                                *)
(***************************************************************************)
Range(s) == {s[k] : k \in DOMAIN s}

RECURSIVE Sum(_, _)
\* Python's sum / pulp.lpSum of f over the index set S.
Sum(f, S) ==
  IF S = {} THEN 0
  ELSE LET x == CHOOSE y \in S : TRUE
       IN f[x] + Sum(f, S \ {x})

Min(S) == CHOOSE m \in S : \A x \in S : m <= x
Max(S) == CHOOSE m \in S : \A x \in S : m >= x

\* [(i, t) for i in products for t in periods]
Keys(d) == Range(d.products) \X Range(d.periods)

(***************************************************************************)
(* lp_model: the inventory-balance model.                                  *)
(***************************************************************************)
\* (a lowBound of -1 for the inventory variables)
InventoryLowBoundBelowZero == 0 - 1
\* lowBound=0 of the three LpVariable.dicts calls.
InventoryLowBound == 0
ShortageLowBound == 0
\* (a lowBound of -1 for the excess variables)
ExcessLowBoundBelowZero == 0 - 1
ExcessLowBound == 0

\* pulp.LpVariable.dicts(name, keys, lowBound, cat="Continuous"): the value
\* maps the solver may assign to one family of variables.
LpVariableDicts(keys, lowBound) == [keys -> lowBound..MaxLevel]

\* sorted(periods), the identifiers "T1", "T2" in their alphabetical order.
SortedPeriods(periods) ==
  SortSeq(periods, LAMBDA a, b : a = "T1" /\ b = "T2")

\* prev_t taken from the sorted list of periods instead of the supplied one.
PrevPeriodSorted(periods, t_idx) == SortedPeriods(periods)[t_idx - 1]

\* prev_t = periods[t_idx - 1]  (t_idx is 1-based here, 0-based in Python)
PrevPeriod(periods, t_idx) == periods[t_idx - 1]

\* The previous-inventory term of a constraint: initial_inventory[i] in the
\* first period, the variable inventory[i, prev_t] otherwise.
PrevTerm(periods, t_idx) ==
  IF t_idx = 1 THEN None ELSE PrevPeriod(periods, t_idx)

\* The constraints registered by the loop "for i in products: for t_idx, t in
\* enumerate(periods)": Balance_i_t, Excess_Calc_i_t and Shortage_Calc_i_t.
LpConstraints(products, periods) ==
  UNION { UNION { { [name |-> "Balance", i |-> products[p], t |-> periods[t_idx],
                     prev |-> PrevTerm(periods, t_idx)],
                    [name |-> "Excess_Calc", i |-> products[p], t |-> periods[t_idx],
                     prev |-> PrevTerm(periods, t_idx)],
                    [name |-> "Shortage_Calc", i |-> products[p], t |-> periods[t_idx],
                     prev |-> PrevTerm(periods, t_idx)] }
                  : t_idx \in DOMAIN periods }
          : p \in DOMAIN products }

\* initial_inventory[i] or inventory[i, prev_t], as the constraint was built.
PrevInventory(d, a, c) ==
  IF c.prev = None THEN d.initial_inventory[c.i] ELSE a.inventory[<<c.i, c.prev>>]

\* Balance without the shortage term.
BalanceNoShortage(d, a, c) ==
  a.inventory[<<c.i, c.t>>] =
    PrevInventory(d, a, c) + d.yielded_supply[<<c.i, c.t>>] - d.effective_demand[<<c.i, c.t>>]

\* Balance with the first-period right-hand side used in every period (the
\* rollover from the previous period lost).
BalanceFromInitial(d, a, c) ==
  a.inventory[<<c.i, c.t>>] =
    d.initial_inventory[c.i] + d.yielded_supply[<<c.i, c.t>>] - d.effective_demand[<<c.i, c.t>>]
      + a.shortage[<<c.i, c.t>>]

\* inventory[i, t] == prev + yielded_supply[i, t] - effective_demand[i, t] + shortage[i, t]
Balance(d, a, c) ==
  a.inventory[<<c.i, c.t>>] =
    PrevInventory(d, a, c) + d.yielded_supply[<<c.i, c.t>>] - d.effective_demand[<<c.i, c.t>>]
      + a.shortage[<<c.i, c.t>>]

\* Excess_Calc on the stock before the demand of the period is served.
Excess_CalcBeforeDemand(d, a, c) ==
  a.excess[<<c.i, c.t>>] >=
    PrevInventory(d, a, c) + d.yielded_supply[<<c.i, c.t>>] - d.safety_stock_target[c.i]

\* excess[i, t] >= inventory[i, t] - safety_stock_target[i]
Excess_Calc(d, a, c) ==
  a.excess[<<c.i, c.t>>] >= a.inventory[<<c.i, c.t>>] - d.safety_stock_target[c.i]

\* shortage[i, t] >= effective_demand[i, t] - (prev + yielded_supply[i, t])
Shortage_Calc(d, a, c) ==
  a.shortage[<<c.i, c.t>>] >=
    d.effective_demand[<<c.i, c.t>>] - (PrevInventory(d, a, c) + d.yielded_supply[<<c.i, c.t>>])

\* Whether assignment a satisfies the registered constraint c.
LpHolds(d, a, c) ==
  CASE c.name = "Balance" -> Balance(d, a, c)
    [] c.name = "Excess_Calc" -> Excess_Calc(d, a, c)
    [] c.name = "Shortage_Calc" -> Shortage_Calc(d, a, c)

\* Total_Cost with the excess term left out.
LpObjectiveShortageOnly(d, a) ==
  Sum([k \in Keys(d) |-> d.shortage_cost * a.shortage[k]], Keys(d))

\* Total_Cost with the two cost coefficients left out.
LpObjectiveUnitCosts(d, a) ==
  Sum([k \in Keys(d) |-> a.shortage[k] + a.excess[k]], Keys(d))

\* The objective "Total_Cost": lpSum of shortage_cost * shortage[i, t] +
\* excess_cost * excess[i, t] over all products and periods.
LpObjective(d, a) ==
  Sum([k \in Keys(d) |-> d.shortage_cost * a.shortage[k] + d.excess_cost * a.excess[k]],
      Keys(d))

\* The assignments that satisfy every variable bound and every constraint of
\* the problem.  Excess variables occur in the Excess_Calc constraints only,
\* so the inventory and shortage values are enumerated first.
LpFeasible(d, m) ==
  LET zero == [k \in Keys(d) |-> 0]
      base == { b \in [inventory : LpVariableDicts(Keys(d), m.lowBound.inventory),
                       shortage : LpVariableDicts(Keys(d), m.lowBound.shortage)] :
                  \A c \in m.constraints :
                    c.name # "Excess_Calc" =>
                      LpHolds(d, [inventory |-> b.inventory, shortage |-> b.shortage,
                                  excess |-> zero], c) }
  IN UNION { { [inventory |-> b.inventory, shortage |-> b.shortage, excess |-> e] :
                 e \in { x \in LpVariableDicts(Keys(d), m.lowBound.excess) :
                           \A c \in m.constraints :
                             c.name = "Excess_Calc" =>
                               LpHolds(d, [inventory |-> b.inventory,
                                           shortage |-> b.shortage, excess |-> x], c) } }
             : b \in base }

\* A solve that stops at any assignment satisfying the constraints.
LpStopsAtFeasible(d, F) == F

\* The feasible assignments no other feasible assignment improves (LpMinimize).
LpOptimal(d, F) ==
  LET best == Min({LpObjective(d, a) : a \in F})
  IN {a \in F : LpObjective(d, a) = best}

\* The scenario with every constant term set to zero: what remains of the
\* constraints along a direction of change.
Homogeneous(d) ==
  [d EXCEPT !.initial_inventory = [i \in DOMAIN d.initial_inventory |-> 0],
            !.effective_demand = [k \in DOMAIN d.effective_demand |-> 0],
            !.yielded_supply = [k \in DOMAIN d.yielded_supply |-> 0],
            !.safety_stock_target = [i \in DOMAIN d.safety_stock_target |-> 0]]

\* The directions along which every variable can grow for ever without
\* leaving its bound (lowBound only, no upBound) or breaking a constraint.
LpRecession(d, m) ==
  UNION { { r \in [inventory : [Keys(d) -> 0..1], shortage : [Keys(d) -> 0..1],
                   excess : [Keys(d) -> 0..1]] :
              \A c \in m.constraints : LpHolds(h, r, c) }
          : h \in {Homogeneous(d)} }

\* The objective can be improved without limit (LpMinimize).
LpUnbounded(d, m) == \E r \in LpRecession(d, m) : LpObjective(d, r) < 0

\* pulp.LpStatus[model.status] after model.solve().
LpStatus(d, m, F) ==
  IF F = {} THEN "Infeasible" ELSE IF LpUnbounded(d, m) THEN "Unbounded" ELSE "Optimal"

\* The values of the variables when the model was not solved to optimality:
\* every .value() is None.
NoValues(d) ==
  [inventory |-> [k \in Keys(d) |-> NoValue], shortage |-> [k \in Keys(d) |-> NoValue],
   excess |-> [k \in Keys(d) |-> NoValue]]

\* pulp.value(model.objective): None as soon as one variable of the
\* expression has no value.
ObjectiveValue(d, a) ==
  IF \E k \in Keys(d) : IsNone(a.shortage[k]) \/ IsNone(a.excess[k])
  THEN NoValue
  ELSE LpObjective(d, a)

\* The same comprehension with the entries of unset variables left out.
ResultMappingSolved(value, products, periods) ==
  [k \in { q \in Range(products) \X Range(periods) : ~IsNone(value[q]) } |-> value[k]]

\* {(i, t): variable[i, t].value() for i in products for t in periods}
ResultMapping(value, products, periods) ==
  [k \in { <<products[p], periods[t]>> : p \in DOMAIN products, t \in DOMAIN periods } |->
     value[k]]

\* Lines 30-101: the problem a call builds, from nothing but its arguments:
\* pulp.LpProblem("Inventory_Management", pulp.LpMinimize), the three
\* families of variables and the constraints.
LpProblem(products, periods) ==
  [sense |-> "LpMinimize",
   lowBound |-> [inventory |-> InventoryLowBound, shortage |-> ShortageLowBound,
                 excess |-> ExcessLowBound],
   constraints |-> LpConstraints(products, periods)]

\* Lines 30-101: a call of lp_model builds the problem from its arguments.
CallLpModel ==
  /\ pc = "idle"
  /\ \E products \in ProductLists, periods \in PeriodLists :
       /\ Len(products) * Len(periods) <= 2
       /\ LET P == Range(products)
              K == Range(products) \X Range(periods)
          IN \E initial_inventory \in [P -> InitialLevels],
                effective_demand \in [K -> 0..MaxQty],
                yielded_supply \in [K -> 0..MaxQty],
                safety_stock_target \in [P -> Targets],
                costs \in CostPairs :
               /\ \A i \in P :
                    initial_inventory[i]
                      + Sum([t \in Range(periods) |-> yielded_supply[<<i, t>>]], Range(periods))
                      <= MaxLevel
               /\ data' = [products |-> products, periods |-> periods,
                           initial_inventory |-> initial_inventory,
                           effective_demand |-> effective_demand,
                           yielded_supply |-> yielded_supply,
                           safety_stock_target |-> safety_stock_target,
                           shortage_cost |-> costs[1], excess_cost |-> costs[2]]
               /\ model' = LpProblem(products, periods)
  /\ pc' = "lp_built"
  /\ UNCHANGED <<results, keyvars, callervars>>

\* Lines 30-101 again, for a call with one product, an initial inventory
\* and a safety stock target that may be negative, and costs that may be 0.
CallLpModelWide ==
  /\ pc = "idle"
  /\ \E periods \in PeriodLists :
       LET products == <<"X">>
           P == Range(products)
           K == Range(products) \X Range(periods)
       IN \E initial_inventory \in [P -> WideInitialLevels],
             effective_demand \in [K -> 0..MaxQty],
             yielded_supply \in [K -> 0..MaxQty],
             safety_stock_target \in [P -> WideTargets],
             costs \in WideCostPairs :
            /\ \A i \in P :
                 initial_inventory[i]
                   + Sum([t \in Range(periods) |-> yielded_supply[<<i, t>>]], Range(periods))
                   - (IF safety_stock_target[i] < 0 THEN safety_stock_target[i] ELSE 0)
                   <= MaxLevel
            /\ data' = [products |-> products, periods |-> periods,
                        initial_inventory |-> initial_inventory,
                        effective_demand |-> effective_demand,
                        yielded_supply |-> yielded_supply,
                        safety_stock_target |-> safety_stock_target,
                        shortage_cost |-> costs[1], excess_cost |-> costs[2]]
            /\ model' = LpProblem(products, periods)
  /\ pc' = "lp_built"
  /\ UNCHANGED <<results, keyvars, callervars>>

\* Lines 104-115: model.solve() and the results dictionary.
LpSolve ==
  /\ pc = "lp_built"
  /\ \E F \in {LpFeasible(data, model)} :
       \E status \in {LpStatus(data, model, F)} :
        \E a \in IF status = "Optimal" THEN LpOptimal(data, F) ELSE {NoValues(data)} :
          results' =
            [status |-> status,
             total_cost |-> ObjectiveValue(data, a),
             inventory |-> ResultMapping(a.inventory, data.products, data.periods),
             shortage |-> ResultMapping(a.shortage, data.products, data.periods),
             excess |-> ResultMapping(a.excess, data.products, data.periods)]
  /\ pc' = "lp_returned"
  /\ UNCHANGED <<data, model, keyvars, callervars>>

\* mapping.get(key, 0) or 0
GetOrZero(mapping, key) ==
  IF key \in DOMAIN mapping /\ ~IsNone(mapping[key]) THEN mapping[key] ELSE 0

\* f"{value:.2f}": a number can be formatted, None raises TypeError.
Formattable(value) == ~IsNone(value)

\* Whether making the report raises: the line
\* f"Total Cost: ${results['total_cost']:.2f}" formats total_cost as it is.
ReportRaises(r) == ~Formattable(r.total_cost)

\* The table rows and the cost breakdown of the report.
Report(d, r) ==
  LET total_shortage_cost ==
        Sum([k \in Keys(d) |-> d.shortage_cost * GetOrZero(r.shortage, k)], Keys(d))
      total_excess_cost ==
        Sum([k \in Keys(d) |-> d.excess_cost * GetOrZero(r.excess, k)], Keys(d))
  IN [status |-> r.status,
      total_cost |-> r.total_cost,
      table |-> [k \in Keys(d) |->
                   [inv_val |-> GetOrZero(r.inventory, k),
                    short_val |-> GetOrZero(r.shortage, k),
                    exc_val |-> GetOrZero(r.excess, k)]],
      total_shortage_cost |-> total_shortage_cost,
      total_excess_cost |-> total_excess_cost,
      total |-> total_shortage_cost + total_excess_cost]

\* engine.py lines 175-210, server.py lines 275-311: the caller reports the
\* results: status and total cost, the table, the cost breakdown.
LpReport ==
  /\ pc = "lp_returned"
  /\ IF ReportRaises(results)
     THEN pc' = "TypeError" /\ output' = output
     ELSE pc' = "lp_reported" /\ output' = Report(data, results)
  /\ UNCHANGED <<data, model, results, keyvars, previous>>

NextLp == CallLpModel \/ LpSolve \/ LpReport

\* The caller keeps the results and calls lp_model once more with the same
\* arguments: lines 30-101 run again on them.
CallLpModelAgain ==
  /\ pc = "lp_returned"
  /\ previous = <<>>
  /\ previous' = Append(previous, results)
  /\ model' = LpProblem(data.products, data.periods)
  /\ pc' = "lp_built"
  /\ UNCHANGED <<data, results, keyvars, output>>

NextLpTwice == NextLp \/ CallLpModelAgain

NextLpWide == CallLpModelWide \/ LpSolve \/ LpReport

(***************************************************************************)
(* multi-period.py: the multi-period production-planning model.            *)
(***************************************************************************)
\* holding_cost_rate = 0.02, kept as a whole number of hundredths; the
\* objective below is therefore counted in hundredths of a euro.
HoldingCostRatePct == 2
\* production_cost = {"A": 20, "B": 25}, for the first and second product.
ProductionCost == [p \in {"X", "Y"} |-> IF p = "X" THEN 20 ELSE 25]
\* machine_hours per unit a scenario draws from; labor_hours per unit.
MachineHours == {1, 2}
LaborHours == {1}

\* lowBound=0 of the LpVariable calls for x and inv.
ProductionLowBound == 0
PlanInventoryLowBound == 0

\* pulp.LpVariable(name, lowBound, cat=LpInteger) for every (p, t).
LpIntegerVariables(keys, lowBound) == [keys -> lowBound..MaxLevel]

\* The constraints registered by main: the balance loop, the capacity loop
\* and the safety-stock loop.
PlanConstraints(products, periods) ==
  UNION { { [name |-> "Inventory_Balance", p |-> products[k], t |-> periods[i],
             prev |-> PrevTerm(periods, i)] : i \in DOMAIN periods }
          : k \in DOMAIN products }
  \cup UNION { { [name |-> "Machine_Capacity", p |-> None, t |-> periods[i], prev |-> None],
                 [name |-> "Labor_Capacity", p |-> None, t |-> periods[i], prev |-> None] }
               : i \in DOMAIN periods }
  \cup { [name |-> "Safety_Stock", p |-> products[k], t |-> periods[Len(periods)],
          prev |-> None] : k \in DOMAIN products }

\* initial_inventory[p] or inv[p, prev_t], as the constraint was built.
PlanPrevInventory(d, a, c) ==
  IF c.prev = None THEN d.initial_inventory[c.p] ELSE a.inv[<<c.p, c.prev>>]

\* Inventory_Balance with the demand term left out.
Inventory_BalanceNoDemand(d, a, c) ==
  a.inv[<<c.p, c.t>>] = PlanPrevInventory(d, a, c) + a.x[<<c.p, c.t>>]

\* inv[p, t] == prev + x[p, t] - demand[p, t]
Inventory_Balance(d, a, c) ==
  a.inv[<<c.p, c.t>>] = PlanPrevInventory(d, a, c) + a.x[<<c.p, c.t>>] - d.demand[<<c.p, c.t>>]

\* Machine_Capacity with the machine_hours coefficients left out.
Machine_CapacityUnweighted(d, a, c) ==
  Sum([p \in Range(d.products) |-> a.x[<<p, c.t>>]], Range(d.products))
    <= d.machine_capacity[c.t]

\* lpSum(machine_hours[p] * x[p, t] for p in products) <= machine_capacity[t]
Machine_Capacity(d, a, c) ==
  Sum([p \in Range(d.products) |-> d.machine_hours[p] * a.x[<<p, c.t>>]], Range(d.products))
    <= d.machine_capacity[c.t]

\* Labor_Capacity bounded by machine_capacity[t] instead of labor_capacity[t].
Labor_CapacityCopied(d, a, c) ==
  Sum([p \in Range(d.products) |-> d.labor_hours[p] * a.x[<<p, c.t>>]], Range(d.products))
    <= d.machine_capacity[c.t]

\* lpSum(labor_hours[p] * x[p, t] for p in products) <= labor_capacity[t]
Labor_Capacity(d, a, c) ==
  Sum([p \in Range(d.products) |-> d.labor_hours[p] * a.x[<<p, c.t>>]], Range(d.products))
    <= d.labor_capacity[c.t]

\* Safety_Stock on the first period (periods[0]) instead of the last.
Safety_StockFirstPeriod(d, a, c) == a.inv[<<c.p, d.periods[1]>>] >= d.safety_stock[c.p]

\* inv[p, periods[-1]] >= safety_stock[p]
Safety_Stock(d, a, c) == a.inv[<<c.p, c.t>>] >= d.safety_stock[c.p]

PlanHolds(d, a, c) ==
  CASE c.name = "Inventory_Balance" -> Inventory_Balance(d, a, c)
    [] c.name = "Machine_Capacity" -> Machine_Capacity(d, a, c)
    [] c.name = "Labor_Capacity" -> Labor_Capacity(d, a, c)
    [] c.name = "Safety_Stock" -> Safety_Stock(d, a, c)

\* total_production_cost + total_holding_cost, in hundredths, with
\* holding_cost[p] = production_cost[p] * holding_cost_rate.
PlanObjective(d, a) ==
  Sum([k \in Keys(d) |-> 100 * d.production_cost[k[1]] * a.x[k]
                          + d.production_cost[k[1]] * d.holding_cost_rate_pct * a.inv[k]],
      Keys(d))

PlanFeasible(d, m) ==
  { a \in [x : LpIntegerVariables(Keys(d), m.lowBound.x),
           inv : LpIntegerVariables(Keys(d), m.lowBound.inv)] :
      \A c \in m.constraints : PlanHolds(d, a, c) }

PlanOptimal(d, F) ==
  LET best == Min({PlanObjective(d, a) : a \in F})
  IN {a \in F : PlanObjective(d, a) = best}

\* Lines 20-114: the problem data and the model built from it.  The data
\* block of the script is the scenario; its numbers are drawn from small sets.
PlanMain ==
  /\ pc = "idle"
  /\ \E products \in ProductLists, periods \in PeriodLists :
       /\ Len(products) * Len(periods) <= 2
       /\ LET P == Range(products)
              T == Range(periods)
          IN \E initial_inventory \in [P -> InitialLevels],
                safety_stock \in [P -> Targets],
                demand \in [P \X T -> 0..MaxQty],
                machine_capacity \in [T -> 0..MaxQty],
                labor_capacity \in [T -> {1, MaxQty}],
                machine_hours \in [P -> MachineHours],
                labor_hours \in [P -> LaborHours] :
               /\ \A p \in P :
                    Sum([t \in T |-> demand[<<p, t>>]], T) + safety_stock[p] <= MaxLevel
               /\ data' = [products |-> products, periods |-> periods,
                           initial_inventory |-> initial_inventory,
                           safety_stock |-> safety_stock,
                           production_cost |-> [p \in P |-> ProductionCost[p]],
                           holding_cost_rate_pct |-> HoldingCostRatePct,
                           demand |-> demand,
                           machine_capacity |-> machine_capacity,
                           labor_capacity |-> labor_capacity,
                           machine_hours |-> machine_hours,
                           labor_hours |-> labor_hours]
               /\ model' = [sense |-> "LpMinimize",
                            lowBound |-> [x |-> ProductionLowBound,
                                          inv |-> PlanInventoryLowBound],
                            constraints |-> PlanConstraints(products, periods)]
  /\ pc' = "plan_built"
  /\ UNCHANGED <<results, keyvars, callervars>>

\* Lines 117-159: model.solve(), the status line and, when the status is
\* optimal, the plan that is printed and plotted.
PlanSolve ==
  /\ pc = "plan_built"
  /\ LET F == PlanFeasible(data, model)
     IN IF F = {}
        THEN results' = [status |-> "Infeasible", objective |-> None, x |-> None, inv |-> None]
        ELSE \E a \in PlanOptimal(data, F) :
               results' = [status |-> "Optimal", objective |-> PlanObjective(data, a),
                           x |-> a.x, inv |-> a.inv]
  /\ pc' = "plan_reported"
  /\ UNCHANGED <<data, model, keyvars, callervars>>

NextPlan == PlanMain \/ PlanSolve

(***************************************************************************)
(* product-mix.py: the production-mix (blending) model.                    *)
(***************************************************************************)
MaterialLists == {<<"A">>, <<"A", "B">>}
MixProductLists == {<<"Super">>, <<"Super", "Unleaded">>}
\* octane_number, octane_requirement, material_cost and selling_price values
\* a scenario draws from (numbers of the script's data block).
OctaneNumbers == {90, 120}
OctaneRequirements == {90, 94, 120}
MaterialCosts == {38, 105}
SellingPrices == {85}

\* lowBound=0 of the LpVariable calls for z and y.
AllocationLowBound == 0
OutputLowBound == 0

\* pulp.LpVariable(f"z_{i}_{j}", lowBound=0) for every (i, j).
AllocationVariables(keys, lowBound) == [keys -> lowBound..MaxLevel]

\* The y variables created without upBound=demand[j].
OutputVariablesNoUpBound(products, lowBound, demand) == [products -> lowBound..MaxLevel]

\* pulp.LpVariable(f"y_{j}", lowBound=0, upBound=demand[j]) for every j.
OutputVariables(products, lowBound, demand) ==
  { y \in [products -> lowBound..MaxLevel] : \A j \in products : y[j] <= demand[j] }

MixConstraints(raw_materials, products) ==
  { [name |-> "Material_Availability", i |-> raw_materials[k], j |-> None]
      : k \in DOMAIN raw_materials }
  \cup { [name |-> "Mass_Balance", i |-> None, j |-> products[k]] : k \in DOMAIN products }
  \cup { [name |-> "Octane_Requirement", i |-> None, j |-> products[k]]
           : k \in DOMAIN products }

\* lpSum(z[i, j] for j in products) <= max_available[i]
Material_Availability(d, a, c) ==
  Sum([j \in Range(d.products) |-> a.z[<<c.i, j>>]], Range(d.products)) <= d.max_available[c.i]

\* Mass_Balance as an inequality (>=) instead of an equality.
Mass_BalanceAtLeast(d, a, c) ==
  Sum([i \in Range(d.raw_materials) |-> a.z[<<i, c.j>>]], Range(d.raw_materials)) >= a.y[c.j]

\* lpSum(z[i, j] for i in raw_materials) == y[j]
Mass_Balance(d, a, c) ==
  Sum([i \in Range(d.raw_materials) |-> a.z[<<i, c.j>>]], Range(d.raw_materials)) = a.y[c.j]

\* Octane_Requirement with the right-hand side not multiplied by y[j].
Octane_RequirementPerUnit(d, a, c) ==
  Sum([i \in Range(d.raw_materials) |-> d.octane_number[i] * a.z[<<i, c.j>>]],
      Range(d.raw_materials))
    >= d.octane_requirement[c.j]

\* lpSum(octane_number[i] * z[i, j] for i in raw_materials) >= octane_requirement[j] * y[j]
Octane_Requirement(d, a, c) ==
  Sum([i \in Range(d.raw_materials) |-> d.octane_number[i] * a.z[<<i, c.j>>]],
      Range(d.raw_materials))
    >= d.octane_requirement[c.j] * a.y[c.j]

MixHolds(d, a, c) ==
  CASE c.name = "Material_Availability" -> Material_Availability(d, a, c)
    [] c.name = "Mass_Balance" -> Mass_Balance(d, a, c)
    [] c.name = "Octane_Requirement" -> Octane_Requirement(d, a, c)

\* revenue - material_costs ("Total Profit")
MixObjective(d, a) ==
  Sum([j \in Range(d.products) |-> d.selling_price[j] * a.y[j]], Range(d.products))
  - Sum([k \in Range(d.raw_materials) \X Range(d.products) |-> d.material_cost[k[1]] * a.z[k]],
        Range(d.raw_materials) \X Range(d.products))

MixFeasible(d, m) ==
  { a \in [z : AllocationVariables(Range(d.raw_materials) \X Range(d.products), m.lowBound.z),
           y : OutputVariables(Range(d.products), m.lowBound.y, d.demand)] :
      \A c \in m.constraints : MixHolds(d, a, c) }

\* The solve under the sense LpMinimize instead of LpMaximize.
MixOptimalMinimize(d, F) ==
  LET best == Min({MixObjective(d, a) : a \in F})
  IN {a \in F : MixObjective(d, a) = best}

\* The feasible assignments no other feasible assignment improves (LpMaximize).
MixOptimal(d, F) ==
  LET best == Max({MixObjective(d, a) : a \in F})
  IN {a \in F : MixObjective(d, a) = best}

\* Lines 100-106, "Octane Verification": for every product that is produced
\* (y[j].value() > 0.001), achieved_octane = sum(octane_number[i] *
\* z[i, j].value()) / total_product, kept as <<dividend, divisor>>.
AchievedOctane(d, a) ==
  [j \in { p \in Range(d.products) : a.y[p] > 0 } |->
     << Sum([i \in Range(d.raw_materials) |-> d.octane_number[i] * a.z[<<i, j>>]],
            Range(d.raw_materials)),
        a.y[j] >>]

\* Lines 20-64: the problem data and the model built from it.
MixMain ==
  /\ pc = "idle"
  /\ \E raw_materials \in MaterialLists, products \in MixProductLists :
       /\ Len(raw_materials) * Len(products) <= 2
       /\ LET M == Range(raw_materials)
              P == Range(products)
          IN \E octane_number \in [M -> OctaneNumbers],
                material_cost \in [M -> MaterialCosts],
                max_available \in [M -> 0..MaxQty],
                octane_requirement \in [P -> OctaneRequirements],
                selling_price \in [P -> SellingPrices],
                demand \in [P -> 0..MaxQty] :
               /\ data' = [raw_materials |-> raw_materials, products |-> products,
                           octane_number |-> octane_number,
                           material_cost |-> material_cost,
                           max_available |-> max_available,
                           octane_requirement |-> octane_requirement,
                           selling_price |-> selling_price,
                           demand |-> demand]
               /\ model' = [sense |-> "LpMaximize",
                            lowBound |-> [z |-> AllocationLowBound, y |-> OutputLowBound],
                            constraints |-> MixConstraints(raw_materials, products)]
  /\ pc' = "mix_built"
  /\ UNCHANGED <<results, keyvars, callervars>>

\* Lines 67-111: model.solve(), the status line and, when the status is
\* optimal, the quantities that are printed and plotted.
MixSolve ==
  /\ pc = "mix_built"
  /\ LET F == MixFeasible(data, model)
     IN IF F = {}
        THEN results' = [status |-> "Infeasible", objective |-> None, z |-> None, y |-> None,
                         achieved_octane |-> None]
        ELSE \E a \in MixOptimal(data, F) :
               results' = [status |-> "Optimal", objective |-> MixObjective(data, a),
                           z |-> a.z, y |-> a.y,
                           achieved_octane |-> AchievedOctane(data, a)]
  /\ pc' = "mix_reported"
  /\ UNCHANGED <<data, model, keyvars, callervars>>

NextMix == MixMain \/ MixSolve

(***************************************************************************)
(* optimize_inventory: the loops that turn the flattened "product_period"  *)
(* keys back into (product, period) tuples.  A string is the sequence of   *)
(* its characters; a dict is the sequence of its <<key, value>> items in   *)
(* insertion order, with distinct keys.                                    *)
(***************************************************************************)
Alphabet == {"a", "_"}
Strings == UNION { [1..n -> Alphabet] : n \in 0..MaxKeyLen }
\* Values the flattened dicts carry, and the numbers of items
\* <<len(effective_demand), len(yielded_supply)>> a call is made with.
Values == {1, 2}
DictSizes == {<<0, 0>>, <<1, 0>>, <<0, 1>>, <<2, 0>>, <<1, 1>>, <<0, 2>>}
\* The products and periods lists a call is made with: the product names
\* "a" and "a_a", the period name "a".
KeyProductLists == { << <<"a">> >>, << <<"a", "_", "a">> >>, << <<"a">>, <<"a", "_", "a">> >> }
KeyPeriodLists == { << <<"a">> >> }

\* '_' in s
HasUnderscore(s) == \E k \in DOMAIN s : s[k] = "_"

\* s.find('_') + 1: the position of the first underscore of s (which has one).
FirstUnderscore(s) == Min({k \in DOMAIN s : s[k] = "_"})

\* s.split('_', 1): the list of the pieces around the first underscore.
SplitOnce(s) ==
  IF HasUnderscore(s)
  THEN << SubSeq(s, 1, FirstUnderscore(s) - 1), SubSeq(s, FirstUnderscore(s) + 1, Len(s)) >>
  ELSE << s >>

\* s.split('_')[0]: the piece before the first underscore, s itself without one.
SplitHead(s) == IF HasUnderscore(s) THEN SubSeq(s, 1, FirstUnderscore(s) - 1) ELSE s

\* tuples[key] = value on a Python dict.
DictSet(tuples, key, value) ==
  [k \in DOMAIN tuples \cup {key} |-> IF k = key THEN value ELSE tuples[k]]

\* product = parts[0] + '_' + parts[1].split('_')[0]
ProductOf(parts) == parts[1] \o <<"_">> \o SplitHead(parts[2])

\* period = parts[1].split('_', 1)[1] if '_' in parts[1] else parts[1]
PeriodOf(parts) == IF HasUnderscore(parts[2]) THEN SplitOnce(parts[2])[2] ELSE parts[2]

\* The loop body without the len(parts) == 2 test: a key with no underscore
\* is stored as the product, with an empty period.
UnflattenEntryUnchecked(tuples, key, value) ==
  IF HasUnderscore(key)
  THEN DictSet(tuples, <<ProductOf(SplitOnce(key)), PeriodOf(SplitOnce(key))>>, value)
  ELSE DictSet(tuples, <<key, <<>> >>, value)

\* One pass of the loop body: parts = key.split('_', 1); if len(parts) == 2,
\* the entry (product, period) -> value is stored, otherwise nothing is.
UnflattenEntry(tuples, key, value) ==
  LET parts == SplitOnce(key)
  IN IF Len(parts) = 2
     THEN DictSet(tuples, <<ProductOf(parts), PeriodOf(parts)>>, value)
     ELSE tuples

\* The documented key format of the tool, "product_period": what a caller
\* does to flatten a (product, period) pair.
Flatten(product, period) == product \o <<"_">> \o period

\* The empty dict {}.
EmptyDict == [k \in {} |-> 0]

\* Where control goes once the loop at position (loop, k) has handled item k.
AfterItem(d, loop, k) ==
  IF loop = "demand_loop" /\ k < Len(d.effective_demand) THEN <<"demand_loop", k + 1>>
  ELSE IF loop = "demand_loop" /\ Len(d.yielded_supply) > 0 THEN <<"supply_loop", 1>>
  ELSE IF loop = "supply_loop" /\ k < Len(d.yielded_supply) THEN <<"supply_loop", k + 1>>
  ELSE <<"call_lp_model", 0>>

\* Lines 212-247: the tool is called with its flattened dicts; both tuple
\* dicts start empty.
OptimizeInventory ==
  /\ pc = "idle"
  /\ \E size \in DictSizes, products \in KeyProductLists, periods \in KeyPeriodLists :
       \E dk \in [1..size[1] -> Strings], dv \in [1..size[1] -> Values],
          sk \in [1..size[2] -> Strings], sv \in [1..size[2] -> Values] :
         /\ \A m, n \in 1..size[1] : m # n => dk[m] # dk[n]
         /\ \A m, n \in 1..size[2] : m # n => sk[m] # sk[n]
         /\ data' = [products |-> products, periods |-> periods,
                     effective_demand |-> [n \in 1..size[1] |-> <<dk[n], dv[n]>>],
                     yielded_supply |-> [n \in 1..size[2] |-> <<sk[n], sv[n]>>]]
         /\ LET next == IF size[1] > 0 THEN <<"demand_loop", 1>>
                        ELSE IF size[2] > 0 THEN <<"supply_loop", 1>>
                        ELSE <<"call_lp_model", 0>>
            IN pc' = next[1] /\ idx' = next[2]
  /\ demand_tuples' = EmptyDict
  /\ supply_tuples' = EmptyDict
  /\ UNCHANGED <<model, results, callervars>>

\* Lines 249-254: one iteration of "for key, value in effective_demand.items()".
DemandStep ==
  /\ pc = "demand_loop"
  /\ demand_tuples' = UnflattenEntry(demand_tuples, data.effective_demand[idx][1],
                                     data.effective_demand[idx][2])
  /\ pc' = AfterItem(data, pc, idx)[1]
  /\ idx' = AfterItem(data, pc, idx)[2]
  /\ UNCHANGED <<data, model, results, supply_tuples, callervars>>

\* Lines 256-261: one iteration of "for key, value in yielded_supply.items()".
SupplyStep ==
  /\ pc = "supply_loop"
  /\ supply_tuples' = UnflattenEntry(supply_tuples, data.yielded_supply[idx][1],
                                     data.yielded_supply[idx][2])
  /\ pc' = AfterItem(data, pc, idx)[1]
  /\ idx' = AfterItem(data, pc, idx)[2]
  /\ UNCHANGED <<data, model, results, demand_tuples, callervars>>

NextKeys == OptimizeInventory \/ DemandStep \/ SupplyStep

Init ==
  /\ pc = "idle"
  /\ data = None
  /\ model = None
  /\ results = None
  /\ demand_tuples = EmptyDict
  /\ supply_tuples = EmptyDict
  /\ idx = 0
  /\ output = None
  /\ previous = <<>>

SpecLp == Init /\ [][NextLp]_vars
SpecLpTwice == Init /\ [][NextLpTwice]_vars
SpecLpWide == Init /\ [][NextLpWide]_vars
SpecPlan == Init /\ [][NextPlan]_vars
SpecMix == Init /\ [][NextMix]_vars
SpecKeys == Init /\ [][NextKeys]_vars

Next == NextLpTwice \/ NextLpWide \/ NextPlan \/ NextMix \/ NextKeys
Spec == Init /\ [][Next]_vars

\* The three programs that build and solve a model.
SpecModels == Init /\ [][NextLp \/ NextPlan \/ NextMix]_vars

(***************************************************************************)
(* The claims.                                                             *)
(***************************************************************************)
Max0(n) == IF n > 0 THEN n ELSE 0

LpReturnedOptimal == pc = "lp_returned" /\ results.status = "Optimal"
PlanReportedOptimal == pc = "plan_reported" /\ results.status = "Optimal"
MixReportedOptimal == pc = "mix_reported" /\ results.status = "Optimal"

\* The returned inventory that period number k rolls over from: the initial
\* inventory for the first supplied period, the returned inventory of the
\* period supplied immediately before otherwise.
ReturnedPrev(inventory, i, k) ==
  IF k = 1 THEN data.initial_inventory[i] ELSE inventory[<<i, data.periods[k - 1]>>]

\* C1: in every optimal result of lp_model, for every product and period,
\* inventory = prev + yielded_supply - effective_demand + shortage, prev being
\* the initial inventory in the first supplied period and the inventory of
\* the period supplied immediately before otherwise.
C1_LpBalance ==
  LpReturnedOptimal =>
    \A p \in DOMAIN data.products, k \in DOMAIN data.periods :
      LET i == data.products[p]
          t == data.periods[k]
      IN results.inventory[<<i, t>>] =
           ReturnedPrev(results.inventory, i, k) + data.yielded_supply[<<i, t>>]
             - data.effective_demand[<<i, t>>] + results.shortage[<<i, t>>]

\* A two-period optimal result that rolls a positive inventory over into a
\* period that still ends with a shortage elsewhere in the horizon.
C1_Witness ==
  /\ LpReturnedOptimal
  /\ data.periods = <<"T2", "T1">>
  /\ results.inventory[<<"X", "T2">>] > 0
  /\ results.inventory[<<"X", "T1">>] # results.inventory[<<"X", "T2">>]
  /\ data.initial_inventory["X"] # results.inventory[<<"X", "T2">>]

\* C2: in every optimal result of the planning model, for every product and
\* period, inventory - prev - production + demand = 0 (no shortage term), and
\* the period's demand is covered in full by prev + production; a first-period
\* demand that stock and machine capacity cannot cover is not absorbed: the
\* status is infeasible.
C2_PlanBalance ==
  /\ PlanReportedOptimal =>
       \A p \in DOMAIN data.products, k \in DOMAIN data.periods :
         LET i == data.products[p]
             t == data.periods[k]
             prev == ReturnedPrev(results.inv, i, k)
         IN /\ results.inv[<<i, t>>] - prev - results.x[<<i, t>>] + data.demand[<<i, t>>] = 0
            /\ prev + results.x[<<i, t>>] >= data.demand[<<i, t>>]
  /\ (/\ pc = "plan_reported"
      /\ \E p \in Range(data.products) :
           data.machine_hours[p]
             * (data.demand[<<p, data.periods[1]>>] - data.initial_inventory[p])
             > data.machine_capacity[data.periods[1]]) =>
       results.status = "Infeasible"

\* A two-period optimal plan that produces ahead, carries the stock over and
\* produces again in the second period.
C2_Witness ==
  /\ PlanReportedOptimal
  /\ Len(data.periods) = 2
  /\ results.inv[<<"X", data.periods[1]>>] > data.initial_inventory["X"]
  /\ results.x[<<"X", data.periods[2]>>] > 0
  /\ data.demand[<<"X", data.periods[2]>>] > 0

\* C3: whenever the status is optimal every returned value is >= 0:
\* inventory, shortage and excess of lp_model, production and inventory of
\* the planning model, allocation and output of the mix model.
C3_NonNegative ==
  /\ LpReturnedOptimal =>
       \A k \in Keys(data) :
         results.inventory[k] >= 0 /\ results.shortage[k] >= 0 /\ results.excess[k] >= 0
  /\ PlanReportedOptimal =>
       \A k \in Keys(data) : results.x[k] >= 0 /\ results.inv[k] >= 0
  /\ MixReportedOptimal =>
       /\ \A k \in Range(data.raw_materials) \X Range(data.products) : results.z[k] >= 0
       /\ \A j \in Range(data.products) : results.y[j] >= 0

\* An optimal lp_model result whose inventory stays below the safety stock
\* target, so that only the variable's own bound keeps the excess at zero.
C3_Witness ==
  /\ LpReturnedOptimal
  /\ \E k \in Keys(data) :
       /\ results.inventory[k] < data.safety_stock_target[k[1]]
       /\ results.excess[k] = 0
       /\ results.shortage[k] > 0

\* C4: in every optimal plan, in every period, the machine hours and the
\* labor hours of the production stay within the period's capacities.
C4_Capacity ==
  PlanReportedOptimal =>
    \A t \in Range(data.periods) :
      /\ Sum([p \in Range(data.products) |-> data.machine_hours[p] * results.x[<<p, t>>]],
             Range(data.products)) <= data.machine_capacity[t]
      /\ Sum([p \in Range(data.products) |-> data.labor_hours[p] * results.x[<<p, t>>]],
             Range(data.products)) <= data.labor_capacity[t]

\* An optimal two-period plan in which the machine capacity is what limits
\* the production of one period and the labor capacity that of the other.
C4_Witness ==
  /\ PlanReportedOptimal
  /\ Len(data.periods) = 2
  /\ \E t, u \in Range(data.periods) :
       /\ results.x[<<"X", t>>] > 0
       /\ data.machine_hours["X"] * results.x[<<"X", t>>] = data.machine_capacity[t]
       /\ data.labor_hours["X"] * results.x[<<"X", t>>] < data.labor_capacity[t]
       /\ results.x[<<"X", u>>] > 0
       /\ data.labor_hours["X"] * results.x[<<"X", u>>] = data.labor_capacity[u]
       /\ data.machine_hours["X"] * results.x[<<"X", u>>] < data.machine_capacity[u]

\* C5: in every optimal result of the mix model, for every product, the
\* allocations of all raw materials to it sum exactly to its output.
C5_MassBalance ==
  MixReportedOptimal =>
    \A j \in Range(data.products) :
      Sum([i \in Range(data.raw_materials) |-> results.z[<<i, j>>]], Range(data.raw_materials))
        = results.y[j]

\* An optimal blend of two raw materials, both used, into one product.
C5_Witness ==
  /\ MixReportedOptimal
  /\ data.raw_materials = <<"A", "B">>
  /\ results.z[<<"A", "Super">>] > 0
  /\ results.z[<<"B", "Super">>] > 0
  /\ results.y["Super"] = 2

\* C6: with one product, one period, positive costs and a safety stock
\* target >= 0, lp_model returns optimal with shortage = max(0, d - (i0 + s)),
\* inventory = max(0, i0 + s - d), excess = max(0, inventory - sst) and
\* total_cost = shortage_cost * shortage + excess_cost * excess.
C6_SinglePeriod ==
  (/\ pc = "lp_returned"
   /\ Len(data.products) = 1 /\ Len(data.periods) = 1
   /\ data.shortage_cost > 0 /\ data.excess_cost > 0
   /\ data.safety_stock_target[data.products[1]] >= 0) =>
    LET i == data.products[1]
        k == <<data.products[1], data.periods[1]>>
        i0 == data.initial_inventory[i]
        s == data.yielded_supply[k]
        d == data.effective_demand[k]
    IN /\ results.status = "Optimal"
       /\ results.shortage[k] = Max0(d - (i0 + s))
       /\ results.inventory[k] = Max0(i0 + s - d)
       /\ results.excess[k] = Max0(results.inventory[k] - data.safety_stock_target[i])
       /\ results.total_cost = data.shortage_cost * results.shortage[k]
                                 + data.excess_cost * results.excess[k]

\* The spec's second scenario scaled down: no initial stock, supply above
\* demand, target 0, costs 5 and 1: no shortage, inventory and excess 1, cost 1.
C6_Witness ==
  /\ pc = "lp_returned"
  /\ data.products = <<"X">> /\ data.periods = <<"T1">>
  /\ data.initial_inventory["X"] = 0
  /\ data.effective_demand[<<"X", "T1">>] = 1
  /\ data.yielded_supply[<<"X", "T1">>] = 2
  /\ data.safety_stock_target["X"] = 0
  /\ data.shortage_cost = 5 /\ data.excess_cost = 1
  /\ results.shortage[<<"X", "T1">>] = 0
  /\ results.inventory[<<"X", "T1">>] = 1
  /\ results.excess[<<"X", "T1">>] = 1
  /\ results.total_cost = 1

\* Machine hours of the whole demand, of the demand net of the initial
\* inventory, and the machine capacity of all periods together.
DemandMachineHours ==
  Sum([k \in Keys(data) |-> data.machine_hours[k[1]] * data.demand[k]], Keys(data))
NetDemandMachineHours ==
  DemandMachineHours
    - Sum([p \in Range(data.products) |-> data.machine_hours[p] * data.initial_inventory[p]],
          Range(data.products))
TotalMachineCapacity ==
  Sum([t \in Range(data.periods) |-> data.machine_capacity[t]], Range(data.periods))

\* C7 as claimed: whenever the machine hours of the whole demand exceed the
\* machine capacity of all periods together, the status is infeasible.
C7_Original ==
  (pc = "plan_reported" /\ DemandMachineHours > TotalMachineCapacity) =>
    results.status = "Infeasible"

\* C7 as amended: whenever the machine hours of the demand NET OF THE INITIAL
\* INVENTORY exceed the machine capacity of all periods together
\* (machine_hours >= 0), the status is infeasible.
C7_NetDemandInfeasible ==
  (pc = "plan_reported" /\ NetDemandMachineHours > TotalMachineCapacity) =>
    results.status = "Infeasible"

\* A plan with initial stock whose net demand still exceeds every machine
\* hour there is, each period having some capacity.
C7_Witness ==
  /\ pc = "plan_reported"
  /\ NetDemandMachineHours > TotalMachineCapacity
  /\ \E p \in Range(data.products) : data.initial_inventory[p] > 0
  /\ \A t \in Range(data.periods) : data.machine_capacity[t] > 0
  /\ results.status = "Infeasible"

\* The case C8 is about: one raw material, one product, equal octane,
\* availability at least the demand.
SingleBlend ==
  /\ pc = "mix_reported"
  /\ Len(data.raw_materials) = 1 /\ Len(data.products) = 1
  /\ data.octane_number[data.raw_materials[1]] = data.octane_requirement[data.products[1]]
  /\ data.max_available[data.raw_materials[1]] >= data.demand[data.products[1]]

\* C8 as claimed: in that case the optimal result has output = demand.
C8_Original ==
  SingleBlend =>
    results.status = "Optimal" /\ results.y[data.products[1]] = data.demand[data.products[1]]

\* C8 as amended: in that case, when the selling price is above the material
\* cost, the optimal result has output = demand.
C8_ProfitableDemandMet ==
  (/\ SingleBlend
   /\ data.selling_price[data.products[1]] > data.material_cost[data.raw_materials[1]]) =>
    results.status = "Optimal" /\ results.y[data.products[1]] = data.demand[data.products[1]]

\* A profitable single blend with a positive demand, met in full.
C8_Witness ==
  /\ SingleBlend
  /\ data.selling_price[data.products[1]] > data.material_cost[data.raw_materials[1]]
  /\ data.demand[data.products[1]] = 2
  /\ results.y[data.products[1]] = 2
  /\ results.z[<<data.raw_materials[1], data.products[1]>>] = 2

\* Identifiers with no embedded ambiguity: non-empty and free of underscores.
PlainNames == { s \in Strings : Len(s) >= 1 /\ Len(s) <= MaxKeyLen - 2 /\ ~HasUnderscore(s) }
PlainPairs == PlainNames \X PlainNames

\* The flattened dict is the flattening of a mapping over plain pairs.
FlattensPlain(dict) ==
  \A n \in DOMAIN dict : \E q \in PlainPairs : dict[n][1] = Flatten(q[1], q[2])

\* The (product, period) -> value mapping that such a dict is the flattening of.
OriginalMapping(dict) ==
  [q \in {r \in PlainPairs : \E n \in DOMAIN dict : dict[n][1] = Flatten(r[1], r[2])} |->
     dict[CHOOSE n \in DOMAIN dict : dict[n][1] = Flatten(q[1], q[2])][2]]

\* C9: key round trip.  For any mapping over product and period names with
\* no embedded ambiguity, flattening every pair to "<product>_<period>" and
\* unflattening with the loops of optimize_inventory gives back exactly the
\* original mapping, for effective_demand and for yielded_supply.
C9_RoundTrip ==
  pc = "call_lp_model" =>
    /\ FlattensPlain(data.effective_demand) =>
         demand_tuples = OriginalMapping(data.effective_demand)
    /\ FlattensPlain(data.yielded_supply) =>
         supply_tuples = OriginalMapping(data.yielded_supply)

\* C10: a flattened key without an underscore is skipped silently: the loop
\* goes on to its next position and the dict of tuples, with every entry
\* made from the other keys, is left exactly as it was.
C10_SkipNoUnderscore ==
  [][ /\ (pc = "demand_loop" /\ ~HasUnderscore(data.effective_demand[idx][1])) =>
           /\ demand_tuples' = demand_tuples
           /\ <<pc', idx'>> = AfterItem(data, pc, idx)
      /\ (pc = "supply_loop" /\ ~HasUnderscore(data.yielded_supply[idx][1])) =>
           /\ supply_tuples' = supply_tuples
           /\ <<pc', idx'>> = AfterItem(data, pc, idx) ]_vars

\* Both loops have run over a dict whose first key has an underscore and
\* whose second has none: one entry each, made from the first key.
C10_Witness ==
  /\ pc = "call_lp_model"
  /\ Len(data.effective_demand) = 1 /\ Len(data.yielded_supply) = 1
  /\ ~HasUnderscore(data.effective_demand[1][1])
  /\ Len(data.effective_demand[1][1]) > 0
  /\ ~HasUnderscore(data.yielded_supply[1][1])
  /\ demand_tuples = EmptyDict
  /\ supply_tuples = EmptyDict

\* lp_model has returned to its caller.
LpReturned == pc \in {"lp_returned", "lp_reported", "TypeError"}

\* C11: whatever the solver status, the result of lp_model has the entries
\* status, total_cost, inventory, shortage and excess, and the key set of
\* each of the three mappings is exactly the set of (p, t) with p in the
\* supplied products and t in the supplied periods, so that every input pair
\* can be looked up in each of them.
C11_ResultKeys ==
  LpReturned =>
    /\ DOMAIN results = {"status", "total_cost", "inventory", "shortage", "excess"}
    /\ \A mapping \in {results.inventory, results.shortage, results.excess} :
         /\ \A p \in DOMAIN data.products, t \in DOMAIN data.periods :
              <<data.products[p], data.periods[t]>> \in DOMAIN mapping
         /\ \A k \in DOMAIN mapping :
              \E p \in DOMAIN data.products, t \in DOMAIN data.periods :
                k = <<data.products[p], data.periods[t]>>

\* A result with a non-optimal status for two products: the pair of the
\* second product is a key of the mappings although no value was set.
C11_Witness ==
  /\ pc = "lp_returned"
  /\ results.status = "Unbounded"
  /\ data.products = <<"X", "Y">>
  /\ <<"Y", "T1">> \in DOMAIN results.shortage
  /\ IsNone(results.shortage[<<"Y", "T1">>])
  /\ IsNone(results.total_cost)

\* C12: when the status is not optimal and the values and the objective
\* value are None, the caller still produces its report, with every absent
\* inventory, shortage and excess shown as zero in the table and counted as
\* zero in the cost breakdown; no error is raised.
C12_AbsentAsZero ==
  (/\ pc \in {"lp_reported", "TypeError"}
   /\ results.status # "Optimal"
   /\ IsNone(results.total_cost)) =>
    /\ pc = "lp_reported"
    /\ \A k \in Keys(data) :
         output.table[k] = [inv_val |-> 0, short_val |-> 0, exc_val |-> 0]
    /\ output.total_shortage_cost = 0 /\ output.total_excess_cost = 0 /\ output.total = 0

C14_PrevAsSupplied ==
  (pc \in {"lp_built", "lp_returned", "plan_built", "plan_reported"}) =>
    \A c \in model.constraints :
      c.name \in {"Balance", "Shortage_Calc", "Inventory_Balance"} =>
        \A k \in DOMAIN data.periods :
          c.t = data.periods[k] =>
            c.prev = IF k = 1 THEN None ELSE data.periods[k - 1]

\* The periods were supplied as T2, T1: the balance of T1 links to the
\* inventory of T2, and the returned values do not satisfy the balance that
\* the order T1, T2 would have given.
C14_Witness ==
  /\ LpReturnedOptimal
  /\ data.periods = <<"T2", "T1">>
  /\ [name |-> "Balance", i |-> "X", t |-> "T1", prev |-> "T2"] \in model.constraints
  /\ results.inventory[<<"X", "T2">>] #
       results.inventory[<<"X", "T1">>] + data.yielded_supply[<<"X", "T2">>]
         - data.effective_demand[<<"X", "T2">>] + results.shortage[<<"X", "T2">>]

\* The sum over all products and periods of shortage_cost * shortage +
\* excess_cost * excess, for given shortage and excess mappings.
CostOf(shortage, excess) ==
  Sum([k \in Keys(data) |-> data.shortage_cost * shortage[k] + data.excess_cost * excess[k]],
      Keys(data))

\* The inventory the balance equations give product i at the end of the
\* period at position k, for a given shortage mapping.
BalanceInventory(shortage, i, k) ==
  data.initial_inventory[i]
    + Sum([j \in 1..k |-> data.yielded_supply[<<i, data.periods[j]>>]
                            - data.effective_demand[<<i, data.periods[j]>>]
                            + shortage[<<i, data.periods[j]>>]], 1..k)

\* shortage and excess, with the inventory the balance equations give,
\* satisfy every constraint and bound of the formulation.
SatisfiesFormulation(shortage, excess) ==
  \A p \in DOMAIN data.products, k \in DOMAIN data.periods :
    LET i == data.products[p]
        t == data.periods[k]
        prev == IF k = 1 THEN data.initial_inventory[i] ELSE BalanceInventory(shortage, i, k - 1)
    IN /\ BalanceInventory(shortage, i, k) >= 0
       /\ shortage[<<i, t>>] >= 0
       /\ excess[<<i, t>>] >= 0
       /\ excess[<<i, t>>] >= BalanceInventory(shortage, i, k) - data.safety_stock_target[i]
       /\ shortage[<<i, t>>] >=
            data.effective_demand[<<i, t>>] - (prev + data.yielded_supply[<<i, t>>])

\* C15: in every optimal result of lp_model, total_cost is the sum over all
\* products and periods of shortage_cost * shortage + excess_cost * excess
\* of the returned mappings; the total the cost breakdown recomputes equals
\* it; and no shortage and excess values (up to MaxLevel each) that satisfy
\* the constraints give a smaller sum.
C15_TotalCostMinimal ==
  /\ (LpReturned /\ results.status = "Optimal") =>
       results.total_cost = CostOf(results.shortage, results.excess)
  /\ (pc = "lp_reported" /\ results.status = "Optimal") =>
       output.total_shortage_cost + output.total_excess_cost = results.total_cost
  /\ LpReturnedOptimal =>
       \A shortage \in [Keys(data) -> 0..MaxLevel], excess \in [Keys(data) -> 0..MaxLevel] :
         SatisfiesFormulation(shortage, excess) => CostOf(shortage, excess) >= results.total_cost

\* The report of an optimal two-period result that pays for a shortage in
\* one period and for an excess in the other.
C15_Witness ==
  /\ pc = "lp_reported"
  /\ results.status = "Optimal"
  /\ Len(data.periods) = 2
  /\ output.total_shortage_cost > 0
  /\ output.total_excess_cost > 0
  /\ output.total = results.total_cost

\* The returned assignment with one more unit of shortage, of inventory and
\* of excess for the first product in the last period.
Loosened ==
  LET k == <<data.products[1], data.periods[Len(data.periods)]>>
  IN [inventory |-> [results.inventory EXCEPT ![k] = @ + 1],
      shortage |-> [results.shortage EXCEPT ![k] = @ + 1],
      excess |-> [results.excess EXCEPT ![k] = @ + 1]]

\* C16: in every optimal result of lp_model with shortage_cost > 0,
\* excess_cost > 0 and safety stock targets >= 0, no product and period has
\* both shortage > 0 and excess > 0, although the constraints and bounds
\* alone admit an assignment in which both are positive for one pair.
C16_NotBothPositive ==
  (/\ LpReturnedOptimal
   /\ data.shortage_cost > 0 /\ data.excess_cost > 0
   /\ \A i \in Range(data.products) : data.safety_stock_target[i] >= 0) =>
    /\ \A k \in Keys(data) : ~(results.shortage[k] > 0 /\ results.excess[k] > 0)
    /\ \A c \in model.constraints : LpHolds(data, Loosened, c)
    /\ \A k \in Keys(data) :
         /\ Loosened.inventory[k] >= model.lowBound.inventory
         /\ Loosened.shortage[k] >= model.lowBound.shortage
         /\ Loosened.excess[k] >= model.lowBound.excess
    /\ \E k \in Keys(data) : Loosened.shortage[k] > 0 /\ Loosened.excess[k] > 0

\* An optimal two-period result with a shortage and no excess in one period
\* and an excess and no shortage in the other.
C16_Witness ==
  /\ LpReturnedOptimal
  /\ data.shortage_cost > 0 /\ data.excess_cost > 0
  /\ \E k, q \in Keys(data) :
       /\ results.shortage[k] > 0 /\ results.excess[k] = 0
       /\ results.excess[q] > 0 /\ results.shortage[q] = 0

\* C17: the Shortage_Calc constraints are redundant: every choice of
\* inventory and shortage values within the variables' bounds that satisfies
\* the Balance equations satisfies the Shortage_Calc constraints too (the
\* excess variables occur in neither), so the assignments satisfying the
\* formulation are the same with and without them, in every scenario.
C17_ShortageCalcRedundant ==
  pc = "lp_built" =>
    \A b \in [inventory : LpVariableDicts(Keys(data), model.lowBound.inventory),
               shortage : LpVariableDicts(Keys(data), model.lowBound.shortage)] :
      LET a == [inventory |-> b.inventory, shortage |-> b.shortage,
                excess |-> [k \in Keys(data) |-> 0]]
      IN (\A c \in model.constraints : c.name = "Balance" => LpHolds(data, a, c)) =>
           (\A c \in model.constraints : c.name = "Shortage_Calc" => LpHolds(data, a, c))

\* A two-period problem whose first period is in deficit (its Shortage_Calc
\* bound is positive) and whose second period can roll stock over.
C17_Witness ==
  /\ pc = "lp_built"
  /\ Len(data.periods) = 2
  /\ data.effective_demand[<<"X", data.periods[1]>>] >
       data.initial_inventory["X"] + data.yielded_supply[<<"X", data.periods[1]>>]
  /\ data.yielded_supply[<<"X", data.periods[2]>>] >
       data.effective_demand[<<"X", data.periods[2]>>]
  /\ [name |-> "Shortage_Calc", i |-> "X", t |-> data.periods[2], prev |-> data.periods[1]]
       \in model.constraints

\* The items of a flattened dict whose key is "<product>_<period>" for a
\* product of the products list and a period of the periods list, as
\* <<product, period, value>>.
ListMatches(dict) ==
  { <<p, t, dict[n][2]>> : <<p, t, n>> \in
      { q \in Range(data.products) \X Range(data.periods) \X DOMAIN dict :
          dict[q[3]][1] = Flatten(q[1], q[2]) } }

\* C18: once the loops of optimize_inventory have run, every key that equals
\* "<product>_<period>" for a product of the supplied products list and a
\* period of the supplied periods list has been reconstructed as that
\* (product, period) pair; when it is the only key of its dict, the dict of
\* tuples holds exactly that pair with the key's value.
C18_ListMatchFirst ==
  pc = "call_lp_model" =>
    /\ \A q \in ListMatches(data.effective_demand) : <<q[1], q[2]>> \in DOMAIN demand_tuples
    /\ \A q \in ListMatches(data.yielded_supply) : <<q[1], q[2]>> \in DOMAIN supply_tuples
    /\ \A q \in ListMatches(data.effective_demand) :
         Len(data.effective_demand) = 1 => demand_tuples = [k \in {<<q[1], q[2]>>} |-> q[3]]
    /\ \A q \in ListMatches(data.yielded_supply) :
         Len(data.yielded_supply) = 1 => supply_tuples = [k \in {<<q[1], q[2]>>} |-> q[3]]

\* C19: in every optimal result of the mix model, for every product j, the
\* sum over the raw materials of octane_number[i] * allocation[i, j] is at
\* least octane_requirement[j] * output[j]; the verification step reports an
\* octane for exactly the products with output > 0, and that weighted
\* average (dividend / divisor) is at least octane_requirement[j].
C19_OctaneFloor ==
  MixReportedOptimal =>
    /\ \A j \in Range(data.products) :
         Sum([i \in Range(data.raw_materials) |-> data.octane_number[i] * results.z[<<i, j>>]],
             Range(data.raw_materials))
           >= data.octane_requirement[j] * results.y[j]
    /\ DOMAIN results.achieved_octane = { j \in Range(data.products) : results.y[j] > 0 }
    /\ \A j \in DOMAIN results.achieved_octane :
         /\ results.achieved_octane[j][2] = results.y[j]
         /\ results.achieved_octane[j][1] >=
              data.octane_requirement[j] * results.achieved_octane[j][2]

\* An optimal blend that lifts a raw material below the requirement with one
\* above it: octane 90 and 120 for a requirement of 94.
C19_Witness ==
  /\ MixReportedOptimal
  /\ data.raw_materials = <<"A", "B">>
  /\ data.octane_requirement["Super"] = 94
  /\ \E i \in {"A", "B"} : data.octane_number[i] = 90 /\ results.z[<<i, "Super">>] > 0
  /\ "Super" \in DOMAIN results.achieved_octane
  /\ results.achieved_octane["Super"][1] > 94 * results.achieved_octane["Super"][2]

\* C20: in every optimal result of the mix model, for every raw material i
\* the allocations of i to all products sum to at most max_available[i],
\* and for every product j, 0 <= output[j] <= demand[j].
C20_AvailabilityAndDemand ==
  MixReportedOptimal =>
    /\ \A i \in Range(data.raw_materials) :
         Sum([j \in Range(data.products) |-> results.z[<<i, j>>]], Range(data.products))
           <= data.max_available[i]
    /\ \A j \in Range(data.products) : 0 <= results.y[j] /\ results.y[j] <= data.demand[j]

\* One raw material shared by two products and used up: one product is
\* produced up to its demand, the other gets what is left, below its demand.
C20_Witness ==
  /\ MixReportedOptimal
  /\ data.products = <<"Super", "Unleaded">>
  /\ results.z[<<"A", "Super">>] + results.z[<<"A", "Unleaded">>] = data.max_available["A"]
  /\ \E j, k \in Range(data.products) :
       /\ results.y[j] = data.demand[j] /\ results.y[j] > 0
       /\ results.y[k] < data.demand[k] /\ results.y[k] > 0

\* C21: in every optimal plan, for every product, the inventory of the last
\* supplied period is at least safety_stock[p]; the floor is registered for
\* the last period only, one constraint per product.
C21_TerminalSafetyStock ==
  /\ PlanReportedOptimal =>
       \A p \in Range(data.products) :
         results.inv[<<p, data.periods[Len(data.periods)]>>] >= data.safety_stock[p]
  /\ pc \in {"plan_built", "plan_reported"} =>
       /\ \A c \in model.constraints :
            c.name = "Safety_Stock" => c.t = data.periods[Len(data.periods)]
       /\ \A p \in Range(data.products) :
            \E c \in model.constraints : c.name = "Safety_Stock" /\ c.p = p

\* An optimal two-period plan whose inventory is 0, below the safety stock,
\* at the end of the first period and at the safety stock at the end of the
\* last.
C21_Witness ==
  /\ PlanReportedOptimal
  /\ Len(data.periods) = 2
  /\ data.safety_stock["X"] > 0
  /\ results.inv[<<"X", data.periods[1]>>] = 0
  /\ results.inv[<<"X", data.periods[2]>>] = data.safety_stock["X"]
  /\ results.x[<<"X", data.periods[2]>>] > 0

\* The inventory of product i at the end of the period at position k when
\* the shortage of each period absorbs exactly the deficit of that period.
AbsorbedInventory(i, k) ==
  LET F[n \in 0..k] ==
        IF n = 0 THEN data.initial_inventory[i]
        ELSE Max0(F[n - 1] + data.yielded_supply[<<i, data.periods[n]>>]
                    - data.effective_demand[<<i, data.periods[n]>>])
  IN F[k]

\* The assignment in which the shortage absorbs exactly the deficit of each
\* period and the excess is the inventory above the safety stock target.
Absorbing ==
  LET pos(t) == CHOOSE k \in DOMAIN data.periods : data.periods[k] = t
      start(q) == IF pos(q[2]) = 1 THEN data.initial_inventory[q[1]]
                  ELSE AbsorbedInventory(q[1], pos(q[2]) - 1)
  IN [inventory |-> [q \in Keys(data) |-> AbsorbedInventory(q[1], pos(q[2]))],
      shortage |-> [q \in Keys(data) |->
                      Max0(data.effective_demand[q] - (start(q) + data.yielded_supply[q]))],
      excess |-> [q \in Keys(data) |->
                    Max0(AbsorbedInventory(q[1], pos(q[2])) - data.safety_stock_target[q[1]])]]

\* C22: whatever the initial inventory, demand, supply and safety stock
\* target, the problem lp_model builds has a satisfying assignment (the one
\* in which the shortage of each period absorbs its deficit), so the status
\* is never infeasible; with shortage_cost >= 0 and excess_cost >= 0 the
\* status is optimal, with a total cost >= 0.
C22_AlwaysOptimal ==
  /\ pc = "lp_built" =>
       /\ \A c \in model.constraints : LpHolds(data, Absorbing, c)
       /\ \A k \in Keys(data) :
            /\ Absorbing.inventory[k] >= model.lowBound.inventory
            /\ Absorbing.shortage[k] >= model.lowBound.shortage
            /\ Absorbing.excess[k] >= model.lowBound.excess
  /\ LpReturned =>
       /\ results.status # "Infeasible"
       /\ (data.shortage_cost >= 0 /\ data.excess_cost >= 0) =>
            /\ results.status = "Optimal"
            /\ results.total_cost >= 0

\* An optimal result for a negative initial inventory and a negative safety
\* stock target, with a shortage that is free and an excess that is not.
C22_Witness ==
  /\ LpReturnedOptimal
  /\ data.initial_inventory["X"] < 0
  /\ data.safety_stock_target["X"] < 0
  /\ data.shortage_cost = 0 /\ data.excess_cost > 0
  /\ \E k \in Keys(data) : results.shortage[k] > 0
  /\ results.total_cost > 0

\* The items of a flattened dict whose key has at least one underscore.
UnderscoreItems(dict) == { n \in DOMAIN dict : HasUnderscore(dict[n][1]) }

\* C23: once the loops of optimize_inventory have run, every flattened key
\* with at least one underscore (also exactly one) has an entry (product,
\* period) with product + "_" + period = key that carries the key's value;
\* distinct keys have distinct entries, so the dict of tuples has as many
\* entries as there are such keys and no value was overwritten.
C23_PairSpellsKey ==
  pc = "call_lp_model" =>
    /\ \A n \in UnderscoreItems(data.effective_demand) :
         \E q \in DOMAIN demand_tuples :
           /\ Flatten(q[1], q[2]) = data.effective_demand[n][1]
           /\ demand_tuples[q] = data.effective_demand[n][2]
    /\ \A n \in UnderscoreItems(data.yielded_supply) :
         \E q \in DOMAIN supply_tuples :
           /\ Flatten(q[1], q[2]) = data.yielded_supply[n][1]
           /\ supply_tuples[q] = data.yielded_supply[n][2]
    /\ Cardinality(DOMAIN demand_tuples) = Cardinality(UnderscoreItems(data.effective_demand))
    /\ Cardinality(DOMAIN supply_tuples) = Cardinality(UnderscoreItems(data.yielded_supply))

====
